---- MODULE Spec2Model ----
(***************************************************************************)
(* A model of scripts/src/tasks/updateApiReadme.js: the task that scans    *)
(* the exported API of a package and merges two sorted tables into the     *)
(* delimited region of README.md.                                          *)
(*                                                                         *)
(* A text is a sequence of chunks. A chunk is one character, or one of the *)
(* multi-character atoms that never overlap anything else in the modelled  *)
(* alphabet: the two markers and the header words of the tables. The text  *)
(* denoted is the concatenation of the chunks. An optional value (null or  *)
(* a value) is a sequence of length 0 or 1.                                *)
(***************************************************************************)
EXTENDS Integers, Sequences, FiniteSets, TLC

VARIABLES
    tsconfig,           \* ./tsconfig.json as found on disk
    disk,               \* content of README.md on disk; <<>> is "no such file", <<t>> a file of text t
    pc,                 \* position of the run
    files,              \* result of findSourceFiles()
    fileIdx,            \* index of the file the outer forEach is at
    left,               \* top-level statements of the current file still to visit
    node,               \* the statement the inner forEach is at (optional)
    exportedTypes,      \* [category, identifier, description][]
    exportedFunctions,  \* [category, identifier, description][]
    warnings,           \* console.warn calls, as <<file, identifier>>
    readme,             \* updateReadme's local `readme` (optional)
    updatedReadme,      \* updateReadme's local `updatedReadme` (optional)
    reads,              \* fs.readFileSync(README) calls
    writes,             \* fs.writeFileSync(README) calls
    runs                \* completed calls of updateReadme on these catalogs

vars == <<tsconfig, disk, pc, files, fileIdx, left, node, exportedTypes,
          exportedFunctions, warnings, readme, updatedReadme, reads, writes, runs>>

(***************************************************************************)
(* Bounds of the model.                                                    *)
(***************************************************************************)
MaxNodes == 2
MaxReadmeLen == 5
MaxSummaryLen == 4
MaxParamDepth == 1
MaxParams == 2
MaxRuns == 2

(***************************************************************************)
(* Program constants.                                                      *)
(***************************************************************************)
README == <<"R", "E", "A", "D", "M", "E", ".", "m", "d">>
TOKEN_START == <<"<!-- @rnx-kit/api start -->">>
TOKEN_END == <<"<!-- @rnx-kit/api end -->">>

NL == "\n"
\* the grave accent (U+0060), written as an atom
Backtick == "<grave>"
Undefined == <<"undefined">>

(***************************************************************************)
(* Text helpers: the String methods the task uses.                         *)
(***************************************************************************)
Max(a, b) == IF a >= b THEN a ELSE b

\* the concatenation of a sequence of texts, by halves
RECURSIVE Flatten(_)
Flatten(ss) ==
    IF Len(ss) = 0 THEN <<>>
    ELSE IF Len(ss) = 1 THEN ss[1]
    ELSE LET h == Len(ss) \div 2
         IN  Flatten(SubSeq(ss, 1, h)) \o Flatten(SubSeq(ss, h + 1, Len(ss)))

\* Array.prototype.join
RECURSIVE Join(_, _)
Join(ss, sep) ==
    IF ss = <<>> THEN <<>>
    ELSE IF Len(ss) = 1 THEN Head(ss)
    ELSE Head(ss) \o sep \o Join(Tail(ss), sep)

\* String.prototype.indexOf("\n\n"), 0-based, -1 when absent
IndexOfBlankLine(s) ==
    LET hits == {i \in 1..(Len(s) - 1) : s[i] = NL /\ s[i + 1] = NL}
    IN  IF hits = {} THEN -1
        ELSE (CHOOSE i \in hits : \A j \in hits : i <= j) - 1

\* String.prototype.substring(0, n)
Substring0(s, n) == SubSeq(s, 1, n)

IsSpace(c) == c \in {" ", NL, "\t", "\r"}

\* String.prototype.trim
Trim(s) ==
    LET solid == {i \in 1..Len(s) : ~IsSpace(s[i])}
    IN  IF solid = {} THEN <<>>
        ELSE SubSeq(s, CHOOSE i \in solid : \A j \in solid : i <= j,
                       CHOOSE i \in solid : \A j \in solid : i >= j)

\* String.prototype.replace(/\n/g, " ")
ReplaceNewlines(s) == [i \in 1..Len(s) |-> IF s[i] = NL THEN " " ELSE s[i]]

\* UTF-16 code unit of the characters that occur in categories and identifiers
Code(c) ==
    CASE c = " " -> 32 [] c = "$" -> 36 [] c = "&" -> 38 [] c = "(" -> 40
      [] c = ")" -> 41 [] c = "," -> 44 [] c = "." -> 46 [] c = "1" -> 49
      [] c = "T" -> 84 [] c = "U" -> 85 [] c = "[" -> 91 [] c = "]" -> 93
      [] c = Backtick -> 96 [] c = "a" -> 97 [] c = "b" -> 98 [] c = "f" -> 102
      [] c = "g" -> 103 [] c = "{" -> 123 [] c = "}" -> 125

\* the relational operator < on two strings
StrLess(a, b) ==
    LET n == IF Len(a) < Len(b) THEN Len(a) ELSE Len(b)
        diff == {i \in 1..n : a[i] # b[i]}
    IN  IF diff = {} THEN Len(a) < Len(b)
        ELSE LET k == CHOOSE i \in diff : \A j \in diff : i <= j
             IN  Code(a[k]) < Code(b[k])

\* extractBrief cutting at a paragraph break wherever it is (>= 0)
extractBrief_AtAnyPosition(summary) ==
    LET newParagraph == IndexOfBlankLine(summary)
    IN  ReplaceNewlines(Trim(IF newParagraph >= 0
                             THEN Substring0(summary, newParagraph)
                             ELSE summary))

(***************************************************************************)
(* extractBrief                                                            *)
(***************************************************************************)
extractBrief(summary) ==
    LET newParagraph == IndexOfBlankLine(summary)
    IN  ReplaceNewlines(Trim(IF newParagraph > 0
                             THEN Substring0(summary, newParagraph)
                             ELSE summary))

\* findLastBlockComment without the test of the comment's type
findLastBlockComment_AnyComment(comments) ==
    IF comments = <<>> THEN <<>> ELSE <<comments[Len(comments)]>>

(***************************************************************************)
(* findLastBlockComment: null and [] both skip the loop and are <<>> here. *)
(***************************************************************************)
findLastBlockComment(comments) ==
    LET blocks == {i \in 1..Len(comments) : comments[i].type = "CommentBlock"}
    IN  IF blocks = {} THEN <<>>
        ELSE <<comments[CHOOSE i \in blocks : \A j \in blocks : i >= j]>>

(***************************************************************************)
(* getExportedName: declaration.id is optional; "" is <<>>.                *)
(***************************************************************************)
getExportedName(n) ==
    IF n.declaration.type \in {"FunctionDeclaration", "TSInterfaceDeclaration",
                               "TSTypeAliasDeclaration"}
    THEN IF n.declaration.id = <<>> THEN <<>> ELSE n.declaration.id[1]
    ELSE <<>>

isFunctionDeclaration(d) == d.type = "FunctionDeclaration"

\* renderParamNode rendering a rest parameter as its argument alone
RECURSIVE renderParamNode_NoRestPrefix(_)
renderParamNode_NoRestPrefix(p) ==
    CASE p.type = "ArrayPattern" -> <<"ok", <<"[", "]">>>>
      [] p.type = "AssignmentPattern" -> renderParamNode_NoRestPrefix(p.inner[1])
      [] p.type = "Identifier" -> <<"ok", p.name>>
      [] p.type = "MemberExpression" -> <<"throw", <<>>>>
      [] p.type = "ObjectPattern" -> <<"ok", <<"{", "}">>>>
      [] p.type = "RestElement" -> renderParamNode_NoRestPrefix(p.inner[1])
      [] p.type = "TSParameterProperty" -> <<"throw", <<>>>>
      [] OTHER -> <<"ok", <<"undefined">>>>

(***************************************************************************)
(* renderParamNode: a parameter is [type, name, inner], inner the optional *)
(* wrapped pattern (left of an AssignmentPattern, argument of a            *)
(* RestElement). The result is <<"ok", text>> or <<"throw", <<>>>>; a type *)
(* outside the switch falls through and yields undefined.                  *)
(***************************************************************************)
RECURSIVE renderParamNode(_)
renderParamNode(p) ==
    CASE p.type = "ArrayPattern" -> <<"ok", <<"[", "]">>>>
      [] p.type = "AssignmentPattern" -> renderParamNode(p.inner[1])
      [] p.type = "Identifier" -> <<"ok", p.name>>
      [] p.type = "MemberExpression" -> <<"throw", <<>>>>
      [] p.type = "ObjectPattern" -> <<"ok", <<"{", "}">>>>
      [] p.type = "RestElement" ->
            LET r == renderParamNode(p.inner[1])
            IN  IF r[1] = "throw" THEN r ELSE <<"ok", <<".", ".", ".">> \o r[2]>>
      [] p.type = "TSParameterProperty" -> <<"throw", <<>>>>
      [] OTHER -> <<"ok", Undefined>>

\* the `identifier` of updateApiReadme: <<"ok", text>> or <<"throw", <<>>>>
renderIdentifier(n) ==
    LET name == getExportedName(n)
    IN  IF isFunctionDeclaration(n.declaration)
        THEN LET rs == [i \in 1..Len(n.declaration.params) |->
                            renderParamNode(n.declaration.params[i])]
             IN  IF \E i \in 1..Len(rs) : rs[i][1] = "throw"
                 THEN <<"throw", <<>>>>
                 ELSE <<"ok", <<Backtick>> \o name \o <<"(">>
                              \o Join([i \in 1..Len(rs) |-> rs[i][2]], <<",", " ">>)
                              \o <<")", Backtick>>>>
        ELSE <<"ok", name>>

\* sortByCategory without the comparison of the identifiers
sortByCategory_CategoryOnly(lhs, rhs) ==
    IF lhs[1] # rhs[1]
    THEN IF StrLess(lhs[1], rhs[1]) THEN -1 ELSE 1
    ELSE 0

(***************************************************************************)
(* sortByCategory and Array.prototype.sort (stable, in place).             *)
(***************************************************************************)
sortByCategory(lhs, rhs) ==
    IF lhs[1] # rhs[1]
    THEN IF StrLess(lhs[1], rhs[1]) THEN -1 ELSE 1
    ELSE IF lhs[2] = rhs[2] THEN 0 ELSE IF StrLess(lhs[2], rhs[2]) THEN -1 ELSE 1

\* e goes after every element of the sorted array that does not compare greater
InsertSorted(sorted, e) ==
    LET after == {i \in 1..Len(sorted) : sortByCategory(sorted[i], e) > 0}
        k == IF after = {} THEN Len(sorted) + 1
             ELSE CHOOSE i \in after : \A j \in after : i <= j
    IN  SubSeq(sorted, 1, k - 1) \o <<e>> \o SubSeq(sorted, k, Len(sorted))

RECURSIVE SortFrom(_, _)
SortFrom(sorted, rest) ==
    IF rest = <<>> THEN sorted
    ELSE SortFrom(InsertSorted(sorted, Head(rest)), Tail(rest))

Sort(array) == SortFrom(<<>>, array)

(***************************************************************************)
(* markdownTable (the markdown-table package, default options): cells are  *)
(* padded to the width of their column, the rule under the header is at    *)
(* least three dashes wide, lines are joined by a line break.              *)
(***************************************************************************)
ChunkWidth(c) == IF c = Backtick THEN 1 ELSE Len(c)

RECURSIVE Width(_)
Width(t) == IF t = <<>> THEN 0 ELSE ChunkWidth(Head(t)) + Width(Tail(t))

Repeat(c, n) == [i \in 1..n |-> c]

RECURSIVE MaxWidth(_, _)
MaxWidth(table, j) ==
    IF table = <<>> THEN 3
    ELSE Max(Width(Head(table)[j]), MaxWidth(Tail(table), j))

TableLine(cells) == <<"|", " ">> \o Join(cells, <<" ", "|", " ">>) \o <<" ", "|">>

markdownTable(table) ==
    LET cols == 1..Len(table[1])
        size == [j \in cols |-> MaxWidth(table, j)]
        padded(row) == [j \in cols |-> row[j] \o Repeat(" ", size[j] - Width(row[j]))]
        rule == [j \in cols |-> Repeat("-", size[j])]
        lines == <<TableLine(padded(table[1])), TableLine(rule)>>
                 \o [i \in 1..(Len(table) - 1) |-> TableLine(padded(table[i + 1]))]
    IN  Join(lines, <<NL>>)

TypesHeader == <<<<"Category">>, <<"Type Name">>, <<"Description">>>>
FunctionsHeader == <<<<"Category">>, <<"Function">>, <<"Description">>>>

(***************************************************************************)
(* String.prototype.replace(new RegExp(TOKEN_START([^]+)TOKEN_END), str):  *)
(* the leftmost start marker that has an end marker at least one character *)
(* further on, up to the last such end marker (the quantifier is greedy);  *)
(* in the replacement string $$, $&, $1, $01, the dollar-grave and $' are  *)
(* substitution patterns.                                                  *)
(***************************************************************************)
RegExpMatch(text) ==
    LET starts == {i \in 1..Len(text) :
                      /\ text[i] = TOKEN_START[1]
                      /\ \E j \in (i + 2)..Len(text) : text[j] = TOKEN_END[1]}
    IN  IF starts = {} THEN <<>>
        ELSE LET i == CHOOSE a \in starts : \A b \in starts : a <= b
                 ends == {j \in (i + 2)..Len(text) : text[j] = TOKEN_END[1]}
                 j == CHOOSE a \in ends : \A b \in ends : a >= b
             IN  <<[start |-> i, end |-> j]>>

\* the dollar signs that directly precede position k
DollarsBefore(str, k) ==
    LET others == {i \in 1..(k - 1) : str[i] # "$"}
    IN  IF others = {} THEN k - 1
        ELSE k - 1 - CHOOSE i \in others : \A j \in others : i >= j

\* the scan from the left reaches position k with a dollar sign to interpret
Active(str, k) == str[k] = "$" /\ DollarsBefore(str, k) % 2 = 0

\* the characters the pattern at an active position spans; 1 when the dollar
\* sign stands for itself
PatternLen(str, k) ==
    IF k = Len(str) THEN 1
    ELSE LET c == str[k + 1]
         IN  IF c \in {"$", "&", Backtick, "'", "1"} THEN 2
             ELSE IF c = "0" /\ k + 2 <= Len(str) /\ str[k + 2] = "1" THEN 3
             ELSE 1

Consumed(str, k) ==
    \/ k > 1 /\ Active(str, k - 1) /\ PatternLen(str, k - 1) >= 2
    \/ k > 2 /\ Active(str, k - 2) /\ PatternLen(str, k - 2) = 3

\* what position k of the replacement string contributes to the result
Substitute(str, k, text, m) ==
    IF Consumed(str, k) THEN <<>>
    ELSE IF Active(str, k) /\ PatternLen(str, k) >= 2
    THEN LET c == str[k + 1]
         IN  CASE c = "$" -> <<"$">>
               [] c = "&" -> SubSeq(text, m.start, m.end)
               [] c = Backtick -> SubSeq(text, 1, m.start - 1)
               [] c = "'" -> SubSeq(text, m.end + 1, Len(text))
               [] OTHER -> SubSeq(text, m.start + 1, m.end - 1)
    ELSE <<str[k]>>

GetSubstitution(str, text, m) ==
    Flatten([k \in 1..Len(str) |-> Substitute(str, k, text, m)])

\* replace losing what follows the match
Replace_DropsTail(text, replacement) ==
    LET found == RegExpMatch(text)
    IN  IF found = <<>> THEN text
        ELSE LET m == found[1]
             IN  SubSeq(text, 1, m.start - 1)
                 \o GetSubstitution(replacement, text, m)

Replace(text, replacement) ==
    LET found == RegExpMatch(text)
    IN  IF found = <<>> THEN text
        ELSE LET m == found[1]
             IN  SubSeq(text, 1, m.start - 1)
                 \o GetSubstitution(replacement, text, m)
                 \o SubSeq(text, m.end + 1, Len(text))

(***************************************************************************)
(* updateReadme, up to the comparison: the arrays as sorted in place, the  *)
(* rendered tables and the text computed from the README read.             *)
(***************************************************************************)
RenderTypes(array) ==
    IF Len(array) = 0 THEN <<>> ELSE markdownTable(<<TypesHeader>> \o Sort(array))

RenderFunctions(array) ==
    IF Len(array) = 0 THEN <<>> ELSE markdownTable(<<FunctionsHeader>> \o Sort(array))

\* [types, functions].filter(Boolean).join("\n\n")
Content(types, functions) ==
    Join(SelectSeq(<<types, functions>>, LAMBDA t : t # <<>>), <<NL, NL>>)

Replacement(types, functions) ==
    TOKEN_START \o <<NL, NL>> \o Content(types, functions) \o <<NL, NL>> \o TOKEN_END

\* updateReadme leaving the README alone when there is nothing to render
UpdatedReadme_SkipsEmpty(text, arrayTypes, arrayFunctions) ==
    IF Len(arrayTypes) = 0 /\ Len(arrayFunctions) = 0 THEN text
    ELSE Replace(text, Replacement(RenderTypes(arrayTypes),
                                   RenderFunctions(arrayFunctions)))

UpdatedReadme(text, arrayTypes, arrayFunctions) ==
    Replace(text, Replacement(RenderTypes(arrayTypes), RenderFunctions(arrayFunctions)))

(***************************************************************************)
(* The working tree that findSourceFiles looks at: the file a.ts and the   *)
(* directory s that holds s/b.ts. fs.existsSync, fs.statSync().isDirectory *)
(* and glob.sync answer for it.                                            *)
(***************************************************************************)
DotTs == <<".", "t", "s">>
FileA == <<"a">> \o DotTs
DirS == <<"s">>
FileB == <<"s", "/", "b">> \o DotTs
GlobTop == <<"*">> \o DotTs
GlobNone == <<"x", "/", "*">>

existsSync(path) == path \in {FileA, DirS, FileB}
isDirectory(path) == path = DirS

globSync(pattern) ==
    CASE pattern = DirS \o <<"/", "*", "*", "/", "*">> \o DotTs -> <<FileB>>
      [] pattern = GlobTop -> <<FileA>>
      [] pattern \in {FileA, FileB} -> <<pattern>>
      [] OTHER -> <<>>

\* path.basename(path, ext)
basename(path, ext) ==
    LET slashes == {i \in 1..Len(path) : path[i] = "/"}
        from == IF slashes = {} THEN 1
                ELSE 1 + CHOOSE i \in slashes : \A j \in slashes : i >= j
        base == SubSeq(path, from, Len(path))
        n == Len(base) - Len(ext)
    IN  IF n > 0 /\ SubSeq(base, n + 1, Len(base)) = ext
        THEN SubSeq(base, 1, n) ELSE base

(***************************************************************************)
(* findSourceFiles: tsconfig is [state, isArray, include]; state is        *)
(* "missing" (require.resolve throws), "invalid" (require throws) or      *)
(* "loaded"; isArray is Array.isArray(include).                            *)
(***************************************************************************)
RECURSIVE reduceInclude(_, _)
reduceInclude(result, include) ==
    IF include = <<>> THEN result
    ELSE LET pattern == Head(include)
             more == IF existsSync(pattern)
                     THEN IF isDirectory(pattern)
                          THEN globSync(pattern \o <<"/", "*", "*", "/", "*">> \o DotTs)
                          ELSE <<pattern>>
                     ELSE globSync(pattern)
         IN  reduceInclude(result \o more, Tail(include))

findSourceFiles(cfg) ==
    IF cfg.state = "loaded" /\ cfg.isArray
    THEN reduceInclude(<<>>, cfg.include)
    ELSE <<>>

(***************************************************************************)
(* Syntax trees. A statement is [type, declaration, leadingComments]; a    *)
(* declaration is [type, id, params]; a comment is [type, summary], where  *)
(* summary stands for what renderDocNode gives for the summary section     *)
(* that TSDocParser parses from the comment's value.                       *)
(***************************************************************************)
Identifier(name) == [type |-> "Identifier", name |-> name, inner |-> <<>>]
Pattern(type) == [type |-> type, name |-> <<>>, inner |-> <<>>]
Wrapping(type, p) == [type |-> type, name |-> <<>>, inner |-> <<p>>]

CommentBlock(summary) == [type |-> "CommentBlock", summary |-> summary]
CommentLine == [type |-> "CommentLine", summary |-> <<>>]

NoDeclaration == [type |-> "none", id |-> <<>>, params |-> <<>>]
Function(name, params) ==
    [type |-> "FunctionDeclaration", id |-> <<name>>, params |-> params]
Interface(name) == [type |-> "TSInterfaceDeclaration", id |-> <<name>>, params |-> <<>>]
TypeAlias(name) == [type |-> "TSTypeAliasDeclaration", id |-> <<name>>, params |-> <<>>]

Export(declaration, comments) ==
    [type |-> "ExportNamedDeclaration", declaration |-> declaration,
     leadingComments |-> comments]
Statement(comments) ==
    [type |-> "ExpressionStatement", declaration |-> NoDeclaration,
     leadingComments |-> comments]

isExportNamedDeclaration(n) == n.type = "ExportNamedDeclaration"

(***************************************************************************)
(* The run of updateApiReadme.                                             *)
(***************************************************************************)
InitWith(configs, readmes) ==
    /\ tsconfig \in configs
    /\ disk \in readmes
    /\ pc = "start"
    /\ files = <<>>
    /\ fileIdx = 0
    /\ left = 0
    /\ node = <<>>
    /\ exportedTypes = <<>>
    /\ exportedFunctions = <<>>
    /\ warnings = <<>>
    /\ readme = <<>>
    /\ updatedReadme = <<>>
    /\ reads = 0
    /\ writes = 0
    /\ runs = 0

\* findSourceFiles().forEach(...)
FindSourceFiles ==
    /\ pc = "start"
    /\ files' = findSourceFiles(tsconfig)
    /\ fileIdx' = 1
    /\ pc' = "files"
    /\ UNCHANGED <<tsconfig, disk, left, node, exportedTypes, exportedFunctions,
                   warnings, readme, updatedReadme, reads, writes, runs>>

\* fs.readFileSync(file) and babelParser.parse(content) give a program of
\* up to maxNodes top-level statements
ParseFile(maxNodes) ==
    /\ pc = "files"
    /\ fileIdx <= Len(files)
    /\ \E n \in 0..maxNodes : left' = n
    /\ pc' = "body"
    /\ UNCHANGED <<tsconfig, disk, files, fileIdx, node, exportedTypes,
                   exportedFunctions, warnings, readme, updatedReadme, reads,
                   writes, runs>>

\* babelParser.parse throws on a syntax error
ParseError ==
    /\ pc = "files"
    /\ fileIdx <= Len(files)
    /\ pc' = "failed"
    /\ UNCHANGED <<tsconfig, disk, files, fileIdx, left, node, exportedTypes,
                   exportedFunctions, warnings, readme, updatedReadme, reads,
                   writes, runs>>

\* program.body.forEach((node) => ...): the next statement is one of nodes
NextStatement(nodes) ==
    /\ pc = "body"
    /\ left > 0
    /\ \E n \in nodes : node' = <<n>>
    /\ left' = left - 1
    /\ pc' = "node"
    /\ UNCHANGED <<tsconfig, disk, files, fileIdx, exportedTypes,
                   exportedFunctions, warnings, readme, updatedReadme, reads,
                   writes, runs>>

\* the body is exhausted: on to the next file
EndFile ==
    /\ pc = "body"
    /\ left = 0
    /\ fileIdx' = fileIdx + 1
    /\ node' = <<>>
    /\ pc' = "files"
    /\ UNCHANGED <<tsconfig, disk, files, left, exportedTypes, exportedFunctions,
                   warnings, readme, updatedReadme, reads, writes, runs>>

\* not a named export, or an export without a name
Skip ==
    /\ pc = "node"
    /\ ~isExportNamedDeclaration(node[1]) \/ getExportedName(node[1]) = <<>>
    /\ pc' = "body"
    /\ UNCHANGED <<tsconfig, disk, files, fileIdx, left, node, exportedTypes,
                   exportedFunctions, warnings, readme, updatedReadme, reads,
                   writes, runs>>

Named == isExportNamedDeclaration(node[1]) /\ getExportedName(node[1]) # <<>>

\* the throw reached only after the tables collected so far were merged
Throw_Flushes ==
    /\ pc = "node"
    /\ Named
    /\ renderIdentifier(node[1])[1] = "throw"
    /\ disk # <<>>
    /\ disk' = <<Replace(disk[1], Replacement(RenderTypes(exportedTypes),
                                              RenderFunctions(exportedFunctions)))>>
    /\ writes' = writes + 1
    /\ pc' = "failed"
    /\ UNCHANGED <<tsconfig, files, fileIdx, left, node, exportedTypes,
                   exportedFunctions, warnings, readme, updatedReadme, reads, runs>>

\* renderParamNode throws while the identifier is rendered
Throw ==
    /\ pc = "node"
    /\ Named
    /\ renderIdentifier(node[1])[1] = "throw"
    /\ pc' = "failed"
    /\ UNCHANGED <<tsconfig, disk, files, fileIdx, left, node, exportedTypes,
                   exportedFunctions, warnings, readme, updatedReadme, reads,
                   writes, runs>>

\* the warning naming the export by its bare name
Warn_ByName ==
    /\ pc = "node"
    /\ Named
    /\ renderIdentifier(node[1])[1] = "ok"
    /\ findLastBlockComment(node[1].leadingComments) = <<>>
    /\ warnings' = Append(warnings, <<files[fileIdx], getExportedName(node[1])>>)
    /\ pc' = "body"
    /\ UNCHANGED <<tsconfig, disk, files, fileIdx, left, node, exportedTypes,
                   exportedFunctions, readme, updatedReadme, reads, writes, runs>>

\* no block comment: console.warn and return
Warn ==
    /\ pc = "node"
    /\ Named
    /\ renderIdentifier(node[1])[1] = "ok"
    /\ findLastBlockComment(node[1].leadingComments) = <<>>
    /\ warnings' = Append(warnings, <<files[fileIdx], renderIdentifier(node[1])[2]>>)
    /\ pc' = "body"
    /\ UNCHANGED <<tsconfig, disk, files, fileIdx, left, node, exportedTypes,
                   exportedFunctions, readme, updatedReadme, reads, writes, runs>>

\* the entry [category, identifier, description] is pushed
Push ==
    /\ pc = "node"
    /\ Named
    /\ renderIdentifier(node[1])[1] = "ok"
    /\ findLastBlockComment(node[1].leadingComments) # <<>>
    /\ LET category == basename(files[fileIdx], DotTs)
           identifier == renderIdentifier(node[1])[2]
           commentBlock == findLastBlockComment(node[1].leadingComments)[1]
           description == extractBrief(commentBlock.summary)
           entry == <<category, identifier, description>>
       IN  IF isFunctionDeclaration(node[1].declaration)
           THEN /\ exportedFunctions' = Append(exportedFunctions, entry)
                /\ UNCHANGED exportedTypes
           ELSE /\ exportedTypes' = Append(exportedTypes, entry)
                /\ UNCHANGED exportedFunctions
    /\ pc' = "body"
    /\ UNCHANGED <<tsconfig, disk, files, fileIdx, left, node, warnings, readme,
                   updatedReadme, reads, writes, runs>>

\* updateReadme(exportedTypes, exportedFunctions) with README.md on disk
UpdateReadme ==
    /\ pc = "files"
    /\ fileIdx > Len(files)
    /\ disk # <<>>
    /\ exportedTypes' = Sort(exportedTypes)
    /\ exportedFunctions' = Sort(exportedFunctions)
    /\ readme' = disk
    /\ reads' = reads + 1
    /\ LET updated == UpdatedReadme(disk[1], exportedTypes, exportedFunctions)
       IN  /\ updatedReadme' = <<updated>>
           /\ IF updated # disk[1]
              THEN disk' = <<updated>> /\ writes' = writes + 1
              ELSE UNCHANGED <<disk, writes>>
    /\ runs' = runs + 1
    /\ pc' = "done"
    /\ UNCHANGED <<tsconfig, files, fileIdx, left, node, warnings>>

\* updateReadme when there is no README.md: fs.readFileSync throws
ReadmeMissing ==
    /\ pc = "files"
    /\ fileIdx > Len(files)
    /\ disk = <<>>
    /\ exportedTypes' = Sort(exportedTypes)
    /\ exportedFunctions' = Sort(exportedFunctions)
    /\ reads' = reads + 1
    /\ pc' = "failed"
    /\ UNCHANGED <<tsconfig, disk, files, fileIdx, left, node, warnings, readme,
                   updatedReadme, writes, runs>>

\* A further run over unchanged sources collects the same entries and
\* reaches the call of updateReadme with the same catalogs.
Rerun ==
    /\ pc = "done"
    /\ runs < MaxRuns
    /\ pc' = "files"
    /\ readme' = <<>>
    /\ updatedReadme' = <<>>
    /\ reads' = 0
    /\ writes' = 0
    /\ UNCHANGED <<tsconfig, disk, files, fileIdx, left, node, exportedTypes,
                   exportedFunctions, warnings, runs>>

(***************************************************************************)
(* The inputs of the runs explored: the configurations found on disk, the  *)
(* README.md found on disk, the statements a source file may hold.         *)
(***************************************************************************)
Config(state, isArray, include) ==
    [state |-> state, isArray |-> isArray, include |-> include]

EmptyConfigs ==
    { Config("missing", FALSE, <<>>),      \* no tsconfig.json
      Config("invalid", FALSE, <<>>),      \* tsconfig.json does not load
      Config("loaded", FALSE, <<>>),       \* no include, or include is not an array
      Config("loaded", TRUE, <<>>),        \* include: []
      Config("loaded", TRUE, <<GlobNone>>) \* a pattern that matches nothing
    }

OneFileConfig == Config("loaded", TRUE, <<FileA>>)

TsConfigs ==
    EmptyConfigs \cup
    { OneFileConfig,
      Config("loaded", TRUE, <<DirS>>),
      Config("loaded", TRUE, <<GlobTop>>),
      Config("loaded", TRUE, <<FileA, DirS>>),
      Config("loaded", TRUE, <<DirS, GlobNone, FileA>>) }

Old == <<TOKEN_START[1], "o", TOKEN_END[1]>>
Padding == <<TOKEN_START[1], NL, NL, NL, NL, TOKEN_END[1]>>

RunReadmes ==
    { <<>>,                            \* no README.md
      <<(<<"x">>)>>,                   \* no markers
      <<Old>>,
      <<Padding>> }

NameT == <<"T">>
NameU == <<"U">>
NameF == <<"f">>
NameG == <<"g">>

RunNodes ==
    { Statement(<<>>),
      Export(NoDeclaration, <<CommentBlock(<<"a">>)>>),
      Export(Function(NameG, <<>>), <<>>),
      Export(TypeAlias(NameU), <<CommentLine>>),
      Export(Function(NameF, <<Identifier(<<"a">>)>>), <<CommentBlock(<<"a">>)>>),
      Export(Interface(NameT),
             <<CommentBlock(<<"a">>), CommentBlock(<<"b">>), CommentLine>>),
      Export(TypeAlias(NameU), <<CommentBlock(<<>>)>>),
      Export(Function(NameF, <<Pattern("MemberExpression")>>),
             <<CommentBlock(<<"a">>)>>),
      Export(Function(NameG, <<Wrapping("RestElement", Pattern("TSParameterProperty"))>>),
             <<>>) }

Init == InitWith(TsConfigs, RunReadmes)

Next ==
    \/ FindSourceFiles
    \/ ParseFile(MaxNodes)
    \/ ParseError
    \/ NextStatement(RunNodes)
    \/ EndFile
    \/ Skip
    \/ Throw
    \/ Warn
    \/ Push
    \/ UpdateReadme
    \/ ReadmeMissing
    \/ Rerun

Spec == Init /\ [][Next]_vars

(***************************************************************************)
(* The merge over every short README: one source file of at most two       *)
(* documented exports, whose descriptions may hold dollar signs.           *)
(***************************************************************************)
RECURSIVE TextsUpTo(_, _)
TextsUpTo(alphabet, n) ==
    IF n = 0 THEN {<<>>}
    ELSE LET shorter == TextsUpTo(alphabet, n - 1)
         IN  shorter \cup {Append(t, c) : t \in shorter, c \in alphabet}

ReadmeAlphabet == {TOKEN_START[1], TOKEN_END[1], "o"}

MergeReadmes == {<<t>> : t \in TextsUpTo(ReadmeAlphabet, MaxReadmeLen)}

MergeNodes ==
    { Export(Interface(NameT), <<CommentBlock(<<"a">>)>>),
      Export(Function(NameF, <<Identifier(<<"a">>)>>), <<CommentBlock(<<"a">>)>>),
      Export(TypeAlias(NameU), <<CommentBlock(<<"$", "1">>)>>) }

InitMerge == InitWith({OneFileConfig}, MergeReadmes)

NextMerge ==
    \/ FindSourceFiles
    \/ ParseFile(2)
    \/ NextStatement(MergeNodes)
    \/ EndFile
    \/ Push
    \/ UpdateReadme
    \/ Rerun

SpecMerge == InitMerge /\ [][NextMerge]_vars

(***************************************************************************)
(* Sorting: two source files, in either order, of documented exports whose *)
(* names are a prefix of one another or differ in a parameter.             *)
(***************************************************************************)
SortConfigs ==
    { Config("loaded", TRUE, <<FileA, DirS>>),
      Config("loaded", TRUE, <<DirS, FileA>>) }

SortNodes ==
    { Export(Interface(NameT), <<CommentBlock(<<"a">>)>>),
      Export(TypeAlias(NameT \o <<"a">>), <<CommentBlock(<<"a">>)>>),
      Export(Function(NameF, <<Identifier(<<"a">>)>>), <<CommentBlock(<<"a">>)>>),
      Export(Function(NameF, <<>>), <<CommentBlock(<<"b">>)>>) }

InitSort == InitWith(SortConfigs, {<<Old>>})

NextSort ==
    \/ FindSourceFiles
    \/ ParseFile(MaxNodes)
    \/ NextStatement(SortNodes)
    \/ EndFile
    \/ Push
    \/ UpdateReadme

SpecSort == InitSort /\ [][NextSort]_vars

(***************************************************************************)
(* Brief extraction: one documented interface whose summary is any text of *)
(* letters, spaces and line breaks.                                        *)
(***************************************************************************)
Summaries == TextsUpTo({"a", " ", NL}, MaxSummaryLen)

BriefNodes == {Export(Interface(NameT), <<CommentBlock(s)>>) : s \in Summaries}

InitBrief == InitWith({OneFileConfig}, {<<Old>>})

NextBrief ==
    \/ FindSourceFiles
    \/ ParseFile(1)
    \/ NextStatement(BriefNodes)
    \/ EndFile
    \/ Push
    \/ UpdateReadme

SpecBrief == InitBrief /\ [][NextBrief]_vars

(***************************************************************************)
(* Signature rendering: one documented function whose parameters are any   *)
(* patterns of the closed set, nested up to MaxParamDepth.                 *)
(***************************************************************************)
ParamLeaves ==
    { Identifier(<<"a">>), Pattern("ArrayPattern"), Pattern("ObjectPattern"),
      Pattern("MemberExpression"), Pattern("TSParameterProperty") }

RECURSIVE ParamsOfDepth(_)
ParamsOfDepth(d) ==
    IF d = 0 THEN ParamLeaves
    ELSE LET inner == ParamsOfDepth(d - 1)
         IN  inner \cup {Wrapping(t, p) : t \in {"AssignmentPattern", "RestElement"},
                                          p \in inner}

ParamLists == UNION {[1..n -> ParamsOfDepth(MaxParamDepth)] : n \in 0..MaxParams}

\* function f(a, [b, c] = [], ...rest)
ExampleParams ==
    << Identifier(<<"a">>),
       Wrapping("AssignmentPattern", Pattern("ArrayPattern")),
       Wrapping("RestElement", Identifier(<<"r", "e", "s", "t">>)) >>

ParamNodes ==
    {Export(Function(NameF, ps), <<CommentBlock(<<"a">>)>>) :
        ps \in ParamLists \cup {ExampleParams}}

InitParams == InitWith({OneFileConfig}, {<<Old>>})

NextParams ==
    \/ FindSourceFiles
    \/ ParseFile(1)
    \/ NextStatement(ParamNodes)
    \/ EndFile
    \/ Throw
    \/ Push
    \/ UpdateReadme

SpecParams == InitParams /\ [][NextParams]_vars

(***************************************************************************)
(* Vocabulary of the properties.                                           *)
(***************************************************************************)
IsStart(t, i) == t[i] = TOKEN_START[1]
IsEnd(t, i) == t[i] = TOKEN_END[1]

\* a start marker followed later by an end marker
HasMarkerPair(t) ==
    \E i \in 1..Len(t) : \E j \in 1..Len(t) : i < j /\ IsStart(t, i) /\ IsEnd(t, j)

\* the first start marker and the last end marker
StartAt(t) == CHOOSE i \in 1..Len(t) : IsStart(t, i) /\ \A j \in 1..(i - 1) : ~IsStart(t, j)
EndAt(t) == CHOOSE i \in 1..Len(t) : IsEnd(t, i) /\ \A j \in (i + 1)..Len(t) : ~IsEnd(t, j)

Before(t) == SubSeq(t, 1, StartAt(t) - 1)
After(t) == SubSeq(t, EndAt(t) + 1, Len(t))

\* a marker pair with at least one character in between
HasRegion(t) == HasMarkerPair(t) /\ StartAt(t) + 1 < EndAt(t)

FreshContent ==
    Content(RenderTypes(exportedTypes), RenderFunctions(exportedFunctions))

HasBlockComment(n) ==
    \E i \in 1..Len(n.leadingComments) : n.leadingComments[i].type = "CommentBlock"

NamedExport(n) ==
    /\ n.type = "ExportNamedDeclaration"
    /\ n.declaration.type \in {"FunctionDeclaration", "TSInterfaceDeclaration",
                               "TSTypeAliasDeclaration"}
    /\ n.declaration.id # <<>>

Entries == {exportedTypes[i] : i \in 1..Len(exportedTypes)}
           \cup {exportedFunctions[i] : i \in 1..Len(exportedFunctions)}

\* C1 (as claimed): once updateReadme has run, a second run with the same
\* catalogs on the resulting README computes the same text and writes nothing.
C1_SecondRunWritesNothing ==
    (pc = "done" /\ runs >= 2) => (updatedReadme = readme /\ writes = 0)

\* C2 (as claimed): whenever the README holds a start marker followed later by
\* an end marker, whatever lies between them, the text computed holds both
\* markers with exactly "\n\n" + the rendered tables + "\n\n" between them.
C2_RegionReplaced ==
    (pc = "done" /\ runs = 1 /\ HasMarkerPair(readme[1])) =>
        LET u == updatedReadme[1]
        IN  \E i \in 1..Len(u) : \E j \in 1..Len(u) :
                /\ i < j /\ IsStart(u, i) /\ IsEnd(u, j)
                /\ SubSeq(u, i + 1, j - 1) = <<NL, NL>> \o FreshContent \o <<NL, NL>>

\* C3: updateReadme changes nothing outside the delimited region: the text up
\* to the first start marker and the text from the last end marker on are the
\* same in the README read and in the text computed, and a README without a
\* start marker followed by an end marker is left as it is, without a write
\* and without an error. The README on disk is the text computed.
C3_Frame ==
    pc = "done" =>
        LET r == readme[1]
            u == updatedReadme[1]
        IN  /\ disk = updatedReadme
            /\ IF HasMarkerPair(r)
               THEN /\ Len(u) >= Len(Before(r)) + Len(After(r)) + 2
                    /\ SubSeq(u, 1, StartAt(r)) = SubSeq(r, 1, StartAt(r))
                    /\ SubSeq(u, Len(u) - Len(After(r)), Len(u))
                           = SubSeq(r, EndAt(r), Len(r))
               ELSE u = r /\ writes = 0

\* C3 witness: a README with text before and after its region was rewritten.
C3_FrameWitness ==
    /\ pc = "done"
    /\ writes = 1
    /\ HasRegion(readme[1])
    /\ Before(readme[1]) # <<>>
    /\ After(readme[1]) # <<>>

\* tsconfig.json is missing or does not load, or include is absent, not an
\* array or empty
EmptyConfiguration ==
    tsconfig.state # "loaded" \/ ~tsconfig.isArray \/ tsconfig.include = <<>>

\* C4 (as claimed): with an empty or absent source configuration the README
\* is left unmodified and no write is performed.
C4_EmptyConfigNoWrite ==
    (EmptyConfiguration /\ pc = "done") => (writes = 0 /\ updatedReadme = readme)

\* C4 (amended): with an empty or absent source configuration no file is
\* scanned and both catalogs stay empty; the merge then replaces a region of
\* at least one character by the blank-line padding alone, and writes unless
\* the README already reads so; a README without such a region is untouched.
C4_EmptyConfigEmptyTables ==
    EmptyConfiguration =>
        /\ pc # "start" => files = <<>>
        /\ exportedTypes = <<>> /\ exportedFunctions = <<>>
        /\ pc = "done" =>
            LET r == readme[1]
                u == updatedReadme[1]
            IN  /\ IF HasRegion(r)
                   THEN u = Before(r) \o TOKEN_START \o <<NL, NL, NL, NL>>
                                      \o TOKEN_END \o After(r)
                   ELSE u = r
                /\ (writes = 0) <=> (u = r)
                /\ disk = updatedReadme

\* C4 witness: a run with an empty configuration rewrote the README.
C4_EmptyConfigWrites ==
    EmptyConfiguration /\ pc = "done" /\ writes = 1 /\ runs = 1

\* C5 (as claimed): no entry of a catalog has an empty description.
C5_NoEmptyDescription == \A e \in Entries : e[3] # <<>>

\* C5 (amended): an entry is added to a catalog only for an export that has
\* a leading block comment, whatever its summary, and an export is dropped
\* with a warning only when it has no block comment.
C5_EntryHasBlockComment ==
    [][ /\ (\/ Len(exportedTypes') > Len(exportedTypes)
            \/ Len(exportedFunctions') > Len(exportedFunctions))
           => (pc = "node" /\ NamedExport(node[1]) /\ HasBlockComment(node[1]))
        /\ Len(warnings') > Len(warnings)
           => (pc = "node" /\ NamedExport(node[1]) /\ ~HasBlockComment(node[1]))
        /\ (pc = "node" /\ NamedExport(node[1]) /\ HasBlockComment(node[1])
              /\ pc' = "body")
           => Len(exportedTypes') + Len(exportedFunctions')
                 = Len(exportedTypes) + Len(exportedFunctions) + 1
      ]_vars

\* C5 witness: an export whose block comment has an empty summary is in the
\* catalog, with an empty description.
C5_EmptySummaryCatalogued ==
    /\ pc = "body"
    /\ node # <<>>
    /\ NamedExport(node[1])
    /\ \E c \in {findLastBlockComment(node[1].leadingComments)} :
            c # <<>> /\ c[1].summary = <<>>
    /\ exportedTypes # <<>>
    /\ exportedTypes[Len(exportedTypes)][3] = <<>>

C8_WriteOrdering ==
    /\ [](/\ reads <= 1 /\ writes <= 1
          /\ pc = "done" => reads = 1
          /\ writes = 1 => (pc = "done" /\ fileIdx = Len(files) + 1)
          /\ pc = "failed" => (writes = 0 /\ runs = 0))
    /\ [][ (disk' # disk \/ writes' > writes)
           => (/\ pc = "files" /\ fileIdx = Len(files) + 1 /\ pc' = "done"
               /\ writes' = writes + 1 /\ reads' = 1)
         ]_vars

\* C8 witness: the run failed in the second file, with entries of the first
\* file collected, and wrote nothing.
C8_FailedAfterEntries ==
    /\ pc = "failed"
    /\ fileIdx = 2
    /\ Entries # {}
    /\ writes = 0
    /\ disk # <<>>

(***************************************************************************)
(* Reading the rows back from the rendered text.                           *)
(***************************************************************************)
NthSmallest(S, k) == CHOOSE x \in S : Cardinality({y \in S : y < x}) = k - 1

LinesOf(t) ==
    LET breaks == {0, Len(t) + 1} \cup {i \in 1..Len(t) : t[i] = NL}
    IN  [k \in 1..(Cardinality(breaks) - 1) |->
            SubSeq(t, NthSmallest(breaks, k) + 1, NthSmallest(breaks, k + 1) - 1)]

CellsOf(line) ==
    LET bars == {i \in 1..Len(line) : line[i] = "|"}
    IN  IF bars = {} THEN <<>>
        ELSE [k \in 1..(Cardinality(bars) - 1) |->
                Trim(SubSeq(line, NthSmallest(bars, k) + 1,
                                  NthSmallest(bars, k + 1) - 1))]

\* the rows of the table of text t whose header row is header
RowsUnder(t, header) ==
    LET lines == LinesOf(t)
        cells == [k \in 1..Len(lines) |-> CellsOf(lines[k])]
        heads == {k \in 1..Len(cells) : cells[k] = header}
    IN  IF heads = {} THEN <<>>
        ELSE LET h == CHOOSE k \in heads : TRUE
                 stops == {Len(cells) + 1}
                          \cup {k \in (h + 2)..Len(cells) : cells[k] = <<>>}
                 stop == CHOOSE k \in stops : \A j \in stops : k <= j
             IN  [k \in 1..(stop - h - 2) |-> cells[h + 1 + k]]

\* a is lexically smaller than b
LexLess(a, b) ==
    \E k \in 1..Len(b) :
        /\ \A i \in 1..(k - 1) : i <= Len(a) /\ a[i] = b[i]
        /\ k = Len(a) + 1 \/ (k <= Len(a) /\ Code(a[k]) < Code(b[k]))

SortedRows(rows) ==
    \A i \in 1..Len(rows) : \A j \in (i + 1)..Len(rows) :
        /\ rows[i][1] # rows[j][1] => LexLess(rows[i][1], rows[j][1])
        /\ (rows[i][1] = rows[j][1] /\ rows[i][2] # rows[j][2])
              => LexLess(rows[i][2], rows[j][2])

Count(rows, e) == Cardinality({i \in 1..Len(rows) : rows[i] = e})

SameRows(a, b) ==
    Len(a) = Len(b) /\ \A i \in 1..Len(a) : Count(a, a[i]) = Count(b, a[i])

\* C7: in the text computed by updateReadme the rows of each table are ordered
\* by category and, within a category, by identifier display string, and are
\* the entries of the catalog as collected, each as often as it was collected.
C7_SortedTables ==
    [][ (pc = "files" /\ pc' = "done") =>
            \E t \in {RowsUnder(updatedReadme'[1], TypesHeader)} :
            \E f \in {RowsUnder(updatedReadme'[1], FunctionsHeader)} :
                /\ SortedRows(t) /\ SortedRows(f)
                /\ SameRows(t, exportedTypes)
                /\ SameRows(f, exportedFunctions)
      ]_vars

\* C7 witness: s/b.ts was scanned before a.ts, three types or more were
\* collected, and the first row rendered is of category a.
C7_SortedWitness ==
    /\ pc = "done"
    /\ files[1] = FileB
    /\ Len(exportedTypes) >= 3
    /\ \E i \in 1..Len(exportedTypes) : exportedTypes[i][1] = <<"b">>
    /\ RowsUnder(updatedReadme[1], TypesHeader) = exportedTypes
    /\ exportedTypes[1][1] = <<"a">>

(***************************************************************************)
(* The brief of a summary, as stated.                                      *)
(***************************************************************************)
BreakAt(s, i) == i < Len(s) /\ s[i] = NL /\ s[i + 1] = NL
FirstBreak(s) ==
    CHOOSE i \in 1..Len(s) : BreakAt(s, i) /\ \A j \in 1..(i - 1) : ~BreakAt(s, j)
HasBreak(s) == \E i \in 1..Len(s) : BreakAt(s, i)

White(c) == c = " " \/ c = NL

\* d is t without the whitespace at its ends, each line break a space
Normalized(t, d) ==
    IF \A i \in 1..Len(t) : White(t[i]) THEN d = <<>>
    ELSE \E lo \in 1..Len(t) : \E hi \in lo..Len(t) :
            /\ ~White(t[lo]) /\ ~White(t[hi])
            /\ \A i \in 1..(lo - 1) : White(t[i])
            /\ \A i \in (hi + 1)..Len(t) : White(t[i])
            /\ Len(d) = hi - lo + 1
            /\ \A k \in 1..Len(d) :
                  d[k] = IF t[lo + k - 1] = NL THEN " " ELSE t[lo + k - 1]

Clean(d) ==
    /\ \A k \in 1..Len(d) : d[k] # NL
    /\ d # <<>> => (~White(d[1]) /\ ~White(d[Len(d)]))

\* the export just catalogued in a run over one single-statement file
JustPushed == pc = "body" /\ node # <<>>
PushedSummary == findLastBlockComment(node[1].leadingComments)[1].summary

\* C9 (as claimed): a paragraph break at any position cuts the summary; the
\* description is the text before the first break, or the whole summary,
\* trimmed and with each line break a space.
C9_BriefCutsAtAnyBreak ==
    JustPushed =>
        LET s == PushedSummary
            d == exportedTypes[1][3]
        IN  /\ Normalized(IF HasBreak(s) THEN SubSeq(s, 1, FirstBreak(s) - 1) ELSE s, d)
            /\ Clean(d)

\* C9 (amended): a paragraph break cuts the summary unless the summary starts
\* with it: the description is the text before the first break when that
\* break is not at the very start, the whole summary otherwise; in both cases
\* trimmed and with each line break a space, so that it holds no line break
\* and neither starts nor ends with whitespace.
C9_BriefCutsAfterStart ==
    JustPushed =>
        LET s == PushedSummary
            d == exportedTypes[1][3]
        IN  /\ Normalized(IF HasBreak(s) /\ FirstBreak(s) > 1
                          THEN SubSeq(s, 1, FirstBreak(s) - 1) ELSE s, d)
            /\ Clean(d)
            /\ s = <<"a", NL, NL, "a">> => d = <<"a">>

\* C9 witness: a summary of two paragraphs was cut to its first.
C9_TwoParagraphs ==
    JustPushed /\ PushedSummary = <<"a", NL, NL, "a">> /\ exportedTypes[1][3] = <<"a">>

(***************************************************************************)
(* The signature of a function, as stated.                                 *)
(***************************************************************************)
RECURSIVE Innermost(_)
Innermost(p) == IF p.inner = <<>> THEN p ELSE Innermost(p.inner[1])

RECURSIVE RestCount(_)
RestCount(p) ==
    IF p.inner = <<>> THEN 0
    ELSE (IF p.type = "RestElement" THEN 1 ELSE 0) + RestCount(p.inner[1])

Unsupported(p) == Innermost(p).type \in {"MemberExpression", "TSParameterProperty"}

ExpectedParam(p) ==
    Flatten(Repeat(<<".", ".", ".">>, RestCount(p)))
    \o (CASE Innermost(p).type = "Identifier" -> Innermost(p).name
          [] Innermost(p).type = "ArrayPattern" -> <<"[", "]">>
          [] Innermost(p).type = "ObjectPattern" -> <<"{", "}">>)

ExpectedSignature(d) ==
    <<Backtick>> \o d.id[1] \o <<"(">>
    \o Join([i \in 1..Len(d.params) |-> ExpectedParam(d.params[i])], <<",", " ">>)
    \o <<")", Backtick>>

\* C10: the display identifier of an exported function is its name and, in
\* parentheses and joined by ", ", its parameters in order, the whole in
\* grave accents: an identifier as its name, a default-valued parameter as
\* its pattern, an array pattern as [], an object pattern as {}, a rest
\* parameter as ... and its argument. A member expression or a parameter
\* property, at top level or nested, makes the run fail with nothing
\* catalogued; no rendering is undefined.
C10_Signature ==
    node # <<>> =>
        LET d == node[1].declaration
        IN  IF \E i \in 1..Len(d.params) : Unsupported(d.params[i])
            THEN pc \in {"node", "failed"} /\ exportedFunctions = <<>>
            ELSE /\ pc \in {"node", "body"}
                 /\ pc = "body" =>
                      /\ Len(exportedFunctions) = 1
                      /\ exportedFunctions[1][2] = ExpectedSignature(d)
                      /\ \A k \in 1..Len(exportedFunctions[1][2]) :
                            exportedFunctions[1][2][k] # Undefined[1]
                      /\ d.params = ExampleParams =>
                            exportedFunctions[1][2] =
                               <<Backtick, "f", "(", "a", ",", " ", "[", "]", ",", " ",
                                 ".", ".", ".", "r", "e", "s", "t", ")", Backtick>>

\* C10 witness: f(a, [b, c] = [], ...rest) was catalogued.
C10_ExampleRendered ==
    /\ pc = "body"
    /\ node # <<>>
    /\ node[1].declaration.params = ExampleParams
    /\ Len(exportedFunctions) = 1

====
